---------------------------- MODULE Spec2Model ----------------------------
(***************************************************************************)
(* Smart Study Area climate dashboard (live-dashboard.py): the bounded     *)
(* sample buffer, its lock, the two producers (MQTT callback, simulation   *)
(* loop), the startup producer selection and the dashboard callbacks       *)
(* (status, update -> df_buf -> correlation).                              *)
(*                                                                         *)
(* Numbers: a Python float is a record [k, n, d]: k = "num" is the         *)
(* rational n/d with d a power of ten (normalised), k = "nan" is NaN,      *)
(* k = "inf" is +/-infinity (sign in n).  Time is counted in minutes.      *)
(***************************************************************************)
EXTENDS Integers, Sequences, FiniteSets, TLC

\* ------------------------------------------------------------------ bounds
\* capacity of the deque (1500 in the source, scaled down)
MAX_POINTS == 2
\* total number of safe_append calls explored
MaxAppends == 3
\* the clock runs over 0..MaxTime minutes
MaxTime == 5

\* ------------------------------------------------------------- constants
\* the window update asks for: df_buf(5)
UpdateWindow == 5

\* ------------------------------------------------------------- threads
LiveThread == "mqtt"
SimThread == "sim"
TestProducers == {"t1", "t2"}
Producers == {LiveThread, SimThread} \cup TestProducers
Readers == {"r1", "r2"}
NoThread == "none"

\* ------------------------------------------------------------- floats
Num(n, d) == [k |-> "num", n |-> n, d |-> d]
NaN == [k |-> "nan", n |-> 0, d |-> 1]
Inf(s) == [k |-> "inf", n |-> s, d |-> 1]

RECURSIVE Normalise(_, _)
Normalise(n, d) ==
    IF d > 1 /\ n % 10 = 0 THEN Normalise(n \div 10, d \div 10) ELSE Num(n, d)

\* a < b on floats; every comparison with NaN is false
FLt(a, b) ==
    IF a.k = "nan" \/ b.k = "nan" THEN FALSE
    ELSE IF a.k = "inf" THEN a.n < 0 /\ ~(b.k = "inf" /\ b.n < 0)
    ELSE IF b.k = "inf" THEN b.n > 0
    ELSE a.n * b.d < b.n * a.d

FLe(a, b) ==
    IF a.k = "nan" \/ b.k = "nan" THEN FALSE
    ELSE IF a.k = "inf" THEN a.n < 0 \/ (b.k = "inf" /\ b.n > 0)
    ELSE IF b.k = "inf" THEN b.n > 0
    ELSE a.n * b.d <= b.n * a.d

\* ------------------------------------------------------------- parsing
Digits == {"0", "1", "2", "3", "4", "5", "6", "7", "8", "9"}
BadByte == "\\xff"

DigitVal(c) ==
    CASE c = "0" -> 0 [] c = "1" -> 1 [] c = "2" -> 2 [] c = "3" -> 3
      [] c = "4" -> 4 [] c = "5" -> 5 [] c = "6" -> 6 [] c = "7" -> 7
      [] c = "8" -> 8 [] c = "9" -> 9

RECURSIVE Pow10(_)
Pow10(k) == IF k = 0 THEN 1 ELSE 10 * Pow10(k - 1)

RECURSIVE DigitsValue(_)
DigitsValue(s) ==
    IF s = <<>> THEN 0
    ELSE 10 * DigitsValue(SubSeq(s, 1, Len(s) - 1)) + DigitVal(s[Len(s)])

AllDigits(s) == \A i \in 1..Len(s) : s[i] \in Digits

\* str.split(","): the fields between the commas, at least one field
RECURSIVE Split(_)
Split(s) ==
    IF \A i \in 1..Len(s) : s[i] # "," THEN <<s>>
    ELSE LET i == CHOOSE j \in 1..Len(s) :
                      s[j] = "," /\ \A m \in 1..(j - 1) : s[m] # ","
         IN  <<SubSeq(s, 1, i - 1)>> \o Split(SubSeq(s, i + 1, Len(s)))

RECURSIVE StripLeft(_)
StripLeft(s) == IF s # <<>> /\ Head(s) = " " THEN StripLeft(Tail(s)) ELSE s

RECURSIVE StripRight(_)
StripRight(s) ==
    IF s # <<>> /\ s[Len(s)] = " " THEN StripRight(SubSeq(s, 1, Len(s) - 1)) ELSE s

Strip(s) == StripRight(StripLeft(s))

ParseError == [ok |-> FALSE, val |-> NaN]
Parsed(v) == [ok |-> TRUE, val |-> v]

\* float(str): surrounding blanks, optional sign, "nan", "inf", or decimal
\* digits with at most one point and at least one digit; else ValueError
ParseFloat(field) ==
    LET s    == Strip(field)
        sgnd == s # <<>> /\ Head(s) \in {"+", "-"}
        sgn  == IF s # <<>> /\ Head(s) = "-" THEN -1 ELSE 1
        body == IF sgnd THEN Tail(s) ELSE s
        dots == {i \in 1..Len(body) : body[i] = "."}
    IN  IF body = <<"n", "a", "n">> THEN Parsed(NaN)
        ELSE IF body = <<"i", "n", "f">> THEN Parsed(Inf(sgn))
        ELSE IF Cardinality(dots) > 1 THEN ParseError
        ELSE LET p    == IF dots = {} THEN Len(body) + 1 ELSE CHOOSE i \in dots : TRUE
                 ip   == SubSeq(body, 1, p - 1)
                 fp   == SubSeq(body, p + 1, Len(body))
             IN  IF ~AllDigits(ip) \/ ~AllDigits(fp) \/ Len(ip) + Len(fp) = 0
                 THEN ParseError
                 ELSE Parsed(Normalise(sgn * (DigitsValue(ip) * Pow10(Len(fp)) + DigitsValue(fp)),
                                       Pow10(Len(fp))))

\* bytes.decode(): UnicodeDecodeError on a byte that is not UTF-8
Decode(payload) ==
    IF \E i \in 1..Len(payload) : payload[i] = BadByte
    THEN [ok |-> FALSE, text |-> <<>>]
    ELSE [ok |-> TRUE, text |-> payload]


\* the raw payloads delivered by the broker (bytes, one character each)
Payloads ==
    {
      <<"2", "5", ".", "0", ",", "5", "5", ".", "0">>,   \* "25.0,55.0"
      <<"1", "0", "0", ".", "0", ",", "5", "5", ".", "0">>,   \* "100.0,55.0"
      <<"a", "b", "c", ",", "5", "5", ".", "0">>,   \* "abc,55.0"
      <<"2", "5", ".", "0">>,   \* "25.0"
      <<"6", "0", ",", "5", "0">>,   \* "60,50"
      <<"-", "1", "0", ",", "5", "0">>,   \* "-10,50"
      <<"5", "9", ".", "9", ",", "1", "0", "0">>,   \* "59.9,100"
      <<"-", "9", ".", "9", ",", "0">>,   \* "-9.9,0"
      <<"2", "5", ",", "1", "0", "0", ".", "1">>,   \* "25,100.1"
      <<"2", "5", ",", "-", "0", ".", "1">>,   \* "25,-0.1"
      <<"n", "a", "n", ",", "5", "0">>,   \* "nan,50"
      <<"2", "5", ".", "0", ",", "5", "5", ".", "0", ",", "7">>,   \* "25.0,55.0,7"
      <<>>,   \* ""
      <<" ", "2", "5", " ", ",", "5", "5">>,   \* " 25 ,55"
      <<"2", "5", ",", "i", "n", "f">>,   \* "25,inf"
      <<"1", ".", "2", ".", "3", ",", "5">>,   \* "1.2.3,5"
      <<"2", "5", ".", "0", ",">>,   \* "25.0,"
      <<"2", "5", BadByte, ",", "5", "5">> }   \* bytes that are not UTF-8

\* ------------------------------------------------------------- on_message
\* exception classes caught by "except Exception"
ExceptionSubclasses == {"ValueError", "UnicodeDecodeError"}
ExceptClause(e) == e \in ExceptionSubclasses

\* mutant: the upper temperature bound is included
InRangeClosed(t, h) ==
    /\ FLt(Num(-10, 1), t) /\ FLe(t, Num(60, 1))
    /\ FLe(Num(0, 1), h) /\ FLe(h, Num(100, 1))

\* -10 < t < 60 and 0 <= h <= 100
InRange(t, h) ==
    /\ FLt(Num(-10, 1), t) /\ FLt(t, Num(60, 1))
    /\ FLe(Num(0, 1), h) /\ FLe(h, Num(100, 1))

\* mutant: out-of-range readings are passed on to safe_append
TryBodyUnchecked(payload) ==
    LET dec == Decode(payload)
        fs  == Split(dec.text)
        pt  == ParseFloat(fs[1])
        ph  == ParseFloat(fs[2])
        no(e) == [exc |-> e, accept |-> FALSE, t |-> NaN, h |-> NaN]
    IN  IF ~dec.ok THEN no("UnicodeDecodeError")
        ELSE IF ~pt.ok \/ Len(fs) < 2 THEN no("ValueError")
        ELSE IF ~ph.ok THEN no("ValueError")
        ELSE [exc |-> "none", accept |-> TRUE, t |-> pt.val, h |-> ph.val]

\* the body of the try block: which exception it raises ("none" if none),
\* whether safe_append is called and with which t, h
TryBody(payload) ==
    LET dec == Decode(payload)
        fs  == Split(dec.text)
        two == SubSeq(fs, 1, IF Len(fs) < 2 THEN Len(fs) ELSE 2)
        pt  == ParseFloat(two[1])
        ph  == ParseFloat(two[2])
        no(e) == [exc |-> e, accept |-> FALSE, t |-> NaN, h |-> NaN]
    IN  IF ~dec.ok THEN no("UnicodeDecodeError")
        ELSE IF ~pt.ok THEN no("ValueError")
        ELSE IF Len(two) < 2 THEN no("ValueError")
        ELSE IF ~ph.ok THEN no("ValueError")
        ELSE [exc |-> "none", accept |-> InRange(pt.val, ph.val),
              t |-> pt.val, h |-> ph.val]

\* on_message: the try body and its except clause
on_message(payload) ==
    LET b == TryBody(payload)
    IN  [accept  |-> b.accept, t |-> b.t, h |-> b.h,
         escaped |-> b.exc # "none" /\ ~ExceptClause(b.exc)]

\* ------------------------------------------------------------- simulate
\* (29 + uniform(-0.5, 0.5), 80 + uniform(-0.5, 0.5)): corners of the square,
\* enough for windows with either column constant and with neither
SimValues ==
    { <<Num(285, 10), Num(795, 10)>>,
      <<Num(285, 10), Num(805, 10)>>,
      <<Num(295, 10), Num(805, 10)>> }

\* values used by concurrent test producers
TestValues == {<<Num(20, 1), Num(50, 1)>>, <<Num(21, 1), Num(50, 1)>>}

\* ------------------------------------------------------------- the deque
\* the dict appended by safe_append; seq is history: the number of the append
Sample(ts, t, h, seq) == [ts |-> ts, temperature |-> t, humidity |-> h, seq |-> seq]

\* mutant: a full deque drops its newest item instead of its head
DequeAppendDropsTail(b, x) ==
    IF Len(b) >= MAX_POINTS THEN Append(SubSeq(b, 1, Len(b) - 1), x) ELSE Append(b, x)

\* deque(maxlen=MAX_POINTS).append: a full deque drops its head
DequeAppend(b, x) ==
    IF Len(b) >= MAX_POINTS THEN Append(Tail(b), x) ELSE Append(b, x)

\* mutant: rows is the deque itself, not a copy
ListAlias(b) == [ref |-> TRUE, val |-> b]

\* list(buffer): a new list holding the deque's items
ListCopy(b) == [ref |-> FALSE, val |-> b]

\* ------------------------------------------------------------- pandas
\* mutant: the boundary row is kept
WindowFilterInclusive(rows, now, mins) == SelectSeq(rows, LAMBDA s : s.ts >= now - mins)

\* df[df["ts"] > now - timedelta(minutes=mins)]
WindowFilter(rows, now, mins) == SelectSeq(rows, LAMBDA s : s.ts > now - mins)

IsSortedByTs(s) == \A i, j \in 1..Len(s) : i < j => s[i].ts <= s[j].ts

\* df.sort_values("ts"): the rows in ascending ts; the default sort is not
\* stable, so rows of equal ts may come out in any order
SortValues(s) ==
    {t \in {[i \in 1..Len(s) |-> s[f[i]]] : f \in Permutations(1..Len(s))} : IsSortedByTs(t)}

\* series.dropna()
DropNa(col) == SelectSeq(col, LAMBDA v : v.k # "nan")

Column(df, name) ==
    [i \in 1..Len(df) |-> IF name = "temperature" THEN df[i].temperature ELSE df[i].humidity]

\* values on the common scale of tenths ... of the largest denominator
Scale(df) ==
    LET ds == {df[i].temperature.d : i \in 1..Len(df)} \cup {df[i].humidity.d : i \in 1..Len(df)}
    IN  CHOOSE d \in ds \cup {1} : \A e \in ds : e <= d

RECURSIVE SumProd(_, _)
SumProd(xs, ys) ==
    IF xs = <<>> THEN 0 ELSE Head(xs) * Head(ys) + SumProd(Tail(xs), Tail(ys))

NaNEntry == [nan |-> TRUE, cov |-> 0, va |-> 0, vb |-> 0]
One == [nan |-> FALSE, cov |-> 1, va |-> 1, vb |-> 1]
Zero == [nan |-> FALSE, cov |-> 0, va |-> 1, vb |-> 1]

\* one entry of DataFrame.corr(): cov / sqrt(va * vb), kept as the triple
\* (n*Sxy - Sx*Sy, n*Sxx - Sx^2, n*Syy - Sy^2); NaN when the divisor is 0
CorrEntry(xs, ys) ==
    LET n    == Len(xs)
        ones == [i \in 1..n |-> 1]
        cov  == n * SumProd(xs, ys) - SumProd(xs, ones) * SumProd(ys, ones)
        va   == n * SumProd(xs, xs) - SumProd(xs, ones) * SumProd(xs, ones)
        vb   == n * SumProd(ys, ys) - SumProd(ys, ones) * SumProd(ys, ones)
    IN  IF va = 0 \/ vb = 0 THEN NaNEntry
        ELSE IF cov = va /\ cov = vb THEN One
        ELSE [nan |-> FALSE, cov |-> cov, va |-> va, vb |-> vb]

\* df[["temperature","humidity"]].corr(): always a 2 x 2 frame
PandasCorr(df) ==
    LET fin == SelectSeq(df, LAMBDA s : s.temperature.k = "num" /\ s.humidity.k = "num")
        D   == Scale(fin)
        ts  == [i \in 1..Len(fin) |-> fin[i].temperature.n * (D \div fin[i].temperature.d)]
        hs  == [i \in 1..Len(fin) |-> fin[i].humidity.n * (D \div fin[i].humidity.d)]
    IN  [computed |-> TRUE, shape |-> <<2, 2>>,
         tt |-> CorrEntry(ts, ts), th |-> CorrEntry(ts, hs),
         ht |-> CorrEntry(hs, ts), hh |-> CorrEntry(hs, hs)]

\* pd.DataFrame([[1.0,0.0],[0.0,1.0]], ...)
IdentityCorr ==
    [computed |-> TRUE, shape |-> <<2, 2>>, tt |-> One, th |-> Zero, ht |-> Zero, hh |-> One]

NoCorr ==
    [computed |-> FALSE, shape |-> <<0, 0>>, tt |-> NaNEntry, th |-> NaNEntry,
     ht |-> NaNEntry, hh |-> NaNEntry]

\* lines 232-234: the matrix the heatmap is built from
CorrStep(df) ==
    LET c == PandasCorr(df)
    IN  IF c.shape # <<2, 2>> THEN IdentityCorr ELSE c

VARIABLES
    buffer,        \* the deque
    lock,          \* owner of the lock, NoThread when free
    clock,         \* datetime.utcnow(), in minutes
    MQTT,          \* "unset", "True" or "False"
    loop_started,  \* client.loop_start() has run
    stop_evt,      \* "None" (no Event yet), "clear" or "set"
    mainpc,        \* position of the main thread
    pc,            \* position of every producer and reader thread
    arg,           \* arguments (t, h) and clock reading of a safe_append call
    om,            \* the on_message call in progress
    local,         \* locals of the dashboard callbacks
    appended,      \* history: number of samples appended so far
    afterStop      \* history: simulate's appends made after stop_evt was set

vars == <<buffer, lock, clock, MQTT, loop_started, stop_evt, mainpc, pc, arg,
          om, local, appended, afterStop>>

NoArg == [t |-> NaN, h |-> NaN, ts |-> 0]
NoOm == [payload |-> <<>>, before |-> 0, escaped |-> FALSE]
NoLocal == [rows |-> ListCopy(<<>>), mins |-> 0, df |-> <<>>,
            caller |-> "none", corr |-> NoCorr, snapLen |-> 0, snapBusy |-> FALSE,
            size |-> 0, held |-> FALSE]

\* what a reader sees through its rows variable
View(rows) == IF rows.ref THEN buffer ELSE rows.val

InitCommon ==
    /\ buffer = <<>>
    /\ lock = NoThread
    /\ clock = 0
    /\ loop_started = FALSE
    /\ stop_evt = "None"
    /\ arg = [p \in Producers |-> NoArg]
    /\ om = NoOm
    /\ local = [r \in Readers |-> NoLocal]
    /\ appended = 0
    /\ afterStop = 0

\* the module is run as a script: lines 40-48 run first
Init ==
    /\ InitCommon
    /\ MQTT = "unset"
    /\ mainpc = "connect"
    /\ pc = [x \in Producers \cup Readers |->
               IF x = SimThread THEN "none" ELSE "idle"]

\* ------------------------------------------------------------- safe_append
InAppend == {"sa_lock", "sa_clock", "sa_append", "sa_unlock"}

\* safe_append calls still allowed within the bound
Budget ==
    appended + Cardinality({p \in Producers : pc[p] \in {"sa_lock", "sa_clock", "sa_append"}})
        < MaxAppends

\* where a producer continues after safe_append returns
AfterAppend(p) ==
    IF p = LiveThread THEN "om_done" ELSE IF p = SimThread THEN "wait" ELSE "idle"

\* mutant: safe_append does not wait for the lock
safe_append_unlocked(p) ==
    /\ pc[p] = "sa_lock"
    /\ lock' = p
    /\ pc' = [pc EXCEPT ![p] = "sa_clock"]
    /\ UNCHANGED <<buffer, clock, MQTT, loop_started, stop_evt, mainpc, arg, om,
                   local, appended, afterStop>>

\* "with lock:" entered
safe_append_acquire(p) ==
    /\ pc[p] = "sa_lock"
    /\ lock = NoThread
    /\ lock' = p
    /\ pc' = [pc EXCEPT ![p] = "sa_clock"]
    /\ UNCHANGED <<buffer, clock, MQTT, loop_started, stop_evt, mainpc, arg, om,
                   local, appended, afterStop>>

\* datetime.utcnow(), evaluated before buffer.append is called
safe_append_utcnow(p) ==
    /\ pc[p] = "sa_clock"
    /\ arg' = [arg EXCEPT ![p].ts = clock]
    /\ pc' = [pc EXCEPT ![p] = "sa_append"]
    /\ UNCHANGED <<buffer, lock, clock, MQTT, loop_started, stop_evt, mainpc, om,
                   local, appended, afterStop>>

\* buffer.append({...})
safe_append_append(p) ==
    /\ pc[p] = "sa_append"
    /\ buffer' = DequeAppend(buffer, Sample(arg[p].ts, arg[p].t, arg[p].h, appended + 1))
    /\ appended' = appended + 1
    /\ afterStop' = IF p = SimThread /\ stop_evt = "set" THEN afterStop + 1 ELSE afterStop
    /\ pc' = [pc EXCEPT ![p] = "sa_unlock"]
    /\ UNCHANGED <<lock, clock, MQTT, loop_started, stop_evt, mainpc, arg, om, local>>

\* "with lock:" left; safe_append returns
safe_append_release(p) ==
    /\ pc[p] = "sa_unlock"
    /\ lock' = NoThread
    /\ arg' = [arg EXCEPT ![p] = NoArg]
    /\ pc' = [pc EXCEPT ![p] = AfterAppend(p)]
    /\ UNCHANGED <<buffer, clock, MQTT, loop_started, stop_evt, mainpc, om, local,
                   appended, afterStop>>

safe_append(p) ==
    \/ safe_append_acquire(p)
    \/ safe_append_utcnow(p)
    \/ safe_append_append(p)
    \/ safe_append_release(p)

\* ------------------------------------------------------------- live feed
\* the network loop delivers a payload: on_message runs up to its call of
\* safe_append, or to its end when nothing is appended
Deliver(payload) ==
    /\ loop_started
    /\ pc[LiveThread] = "idle"
    /\ LET r == on_message(payload)
       IN  /\ r.accept => Budget
           /\ om' = [payload |-> payload, before |-> appended, escaped |-> r.escaped]
           /\ IF r.accept
              THEN /\ arg' = [arg EXCEPT ![LiveThread] = [t |-> r.t, h |-> r.h, ts |-> 0]]
                   /\ pc' = [pc EXCEPT ![LiveThread] = "sa_lock"]
              ELSE /\ arg' = arg
                   /\ pc' = [pc EXCEPT ![LiveThread] = "om_done"]
    /\ UNCHANGED <<buffer, lock, clock, MQTT, loop_started, stop_evt, mainpc, local,
                   appended, afterStop>>

\* on_message returns to the network loop
OnMessageReturn ==
    /\ pc[LiveThread] = "om_done"
    /\ om' = NoOm
    /\ pc' = [pc EXCEPT ![LiveThread] = "idle"]
    /\ UNCHANGED <<buffer, lock, clock, MQTT, loop_started, stop_evt, mainpc, arg,
                   local, appended, afterStop>>

\* ------------------------------------------------------------- simulate
\* mutant: "while True:", the loop never looks at stop_evt
simulate_unchecked ==
    /\ pc[SimThread] = "check"
    /\ Budget
    /\ \E v \in SimValues :
          arg' = [arg EXCEPT ![SimThread] = [t |-> v[1], h |-> v[2], ts |-> 0]]
    /\ pc' = [pc EXCEPT ![SimThread] = "sa_lock"]
    /\ UNCHANGED <<buffer, lock, clock, MQTT, loop_started, stop_evt, mainpc, om,
                   local, appended, afterStop>>

\* "while not stop_evt.is_set():" and the call of safe_append
simulate_check ==
    /\ pc[SimThread] = "check"
    /\ IF stop_evt = "set"
       THEN /\ pc' = [pc EXCEPT ![SimThread] = "done"]
            /\ arg' = arg
       ELSE /\ Budget
            /\ \E v \in SimValues :
                  arg' = [arg EXCEPT ![SimThread] = [t |-> v[1], h |-> v[2], ts |-> 0]]
            /\ pc' = [pc EXCEPT ![SimThread] = "sa_lock"]
    /\ UNCHANGED <<buffer, lock, clock, MQTT, loop_started, stop_evt, mainpc, om,
                   local, appended, afterStop>>

\* stop_evt.wait(UPDATE_INTERVAL_MS / 1000) returns because the interval ran out
simulate_wait_timeout ==
    /\ pc[SimThread] = "wait"
    /\ pc' = [pc EXCEPT ![SimThread] = "check"]
    /\ UNCHANGED <<buffer, lock, clock, MQTT, loop_started, stop_evt, mainpc, arg, om,
                   local, appended, afterStop>>

\* stop_evt.wait(...) returns because the event is set
simulate_wait_signalled ==
    /\ pc[SimThread] = "wait"
    /\ stop_evt = "set"
    /\ pc' = [pc EXCEPT ![SimThread] = "check"]
    /\ UNCHANGED <<buffer, lock, clock, MQTT, loop_started, stop_evt, mainpc, arg, om,
                   local, appended, afterStop>>

\* ------------------------------------------------------------- startup
\* lines 40-48: connect, subscribe, loop_start, MQTT = True; any exception
\* on the way gives MQTT = False
ConnectOutcomes == {"ok", "connect_raises", "subscribe_raises"}

mqtt_connect(outcome) ==
    /\ mainpc = "connect"
    /\ loop_started' = (outcome = "ok")
    /\ MQTT' = IF outcome = "ok" THEN "True" ELSE "False"
    /\ mainpc' = "main"
    /\ UNCHANGED <<buffer, lock, clock, stop_evt, pc, arg, om, local, appended, afterStop>>

\* mutant: the simulation is started whatever MQTT is
StartSimulationAlways == TRUE

\* "if not MQTT:" of the __main__ block
StartSimulation == MQTT = "False"

\* lines 273-278: the simulation thread is started when MQTT is False, then
\* app.run serves the callbacks
main ==
    /\ mainpc = "main"
    /\ IF StartSimulation
       THEN /\ stop_evt' = "clear"
            /\ pc' = [pc EXCEPT ![SimThread] = "check"]
       ELSE UNCHANGED <<stop_evt, pc>>
    /\ mainpc' = "run"
    /\ UNCHANGED <<buffer, lock, clock, MQTT, loop_started, arg, om, local, appended, afterStop>>

\* ------------------------------------------------------------- clock
\* the instants at which the clock is observed: 0, and from the update
\* window on
Instants == {t \in 0..MaxTime : t = 0 \/ t >= UpdateWindow}

Tick ==
    /\ \E t \in Instants : t > clock
    /\ clock' = CHOOSE t \in Instants : t > clock /\ \A u \in Instants : u > clock => t <= u
    /\ UNCHANGED <<buffer, lock, MQTT, loop_started, stop_evt, mainpc, pc, arg, om,
                   local, appended, afterStop>>

\* ------------------------------------------------------------- df_buf
\* the window asked for through the query interface: all data
QueryWindows == {0}

Serving == mainpc \in {"run", "harness"}

InCritical(p) == pc[p] \in {"sa_clock", "sa_append", "sa_unlock"}

\* a dashboard callback calls df_buf(mins)
df_buf_call(r, caller, mins) ==
    /\ Serving
    /\ pc[r] = "idle"
    /\ local' = [local EXCEPT ![r] = [NoLocal EXCEPT !.mins = mins, !.caller = caller]]
    /\ pc' = [pc EXCEPT ![r] = "df_lock"]
    /\ UNCHANGED <<buffer, lock, clock, MQTT, loop_started, stop_evt, mainpc, arg, om,
                   appended, afterStop>>

\* "with lock:" entered
df_buf_acquire(r) ==
    /\ pc[r] = "df_lock"
    /\ lock = NoThread
    /\ lock' = r
    /\ pc' = [pc EXCEPT ![r] = "df_copy"]
    /\ UNCHANGED <<buffer, clock, MQTT, loop_started, stop_evt, mainpc, arg, om, local,
                   appended, afterStop>>

\* rows = list(buffer)
df_buf_copy(r) ==
    /\ pc[r] = "df_copy"
    /\ local' = [local EXCEPT ![r].rows = ListCopy(buffer),
                              ![r].snapLen = appended,
                              ![r].snapBusy = \E p \in Producers : InCritical(p)]
    /\ pc' = [pc EXCEPT ![r] = "df_unlock"]
    /\ UNCHANGED <<buffer, lock, clock, MQTT, loop_started, stop_evt, mainpc, arg, om,
                   appended, afterStop>>

\* "with lock:" left
df_buf_release(r) ==
    /\ pc[r] = "df_unlock"
    /\ lock' = NoThread
    /\ pc' = [pc EXCEPT ![r] = "df_filter"]
    /\ UNCHANGED <<buffer, clock, MQTT, loop_started, stop_evt, mainpc, arg, om, local,
                   appended, afterStop>>

\* lines 68-74: empty frame, or filter on the window and sort by ts
df_buf_filter(r) ==
    /\ pc[r] = "df_filter"
    /\ LET rows == View(local[r].rows)
           mins == local[r].mins
       IN  IF rows = <<>>
           THEN local' = [local EXCEPT ![r] = [NoLocal EXCEPT !.mins = mins, !.caller = local[r].caller]]
           ELSE \E d \in SortValues(IF mins > 0 THEN WindowFilter(rows, clock, mins) ELSE rows) :
                   local' = [local EXCEPT ![r] = [NoLocal EXCEPT !.mins = mins, !.df = d,
                                                                 !.caller = local[r].caller]]
    /\ pc' = [pc EXCEPT ![r] = "df_done"]
    /\ UNCHANGED <<buffer, lock, clock, MQTT, loop_started, stop_evt, mainpc, arg, om,
                   appended, afterStop>>

\* df_buf returns to a caller other than update
df_buf_return(r) ==
    /\ pc[r] = "df_done"
    /\ local[r].caller = "query"
    /\ local' = [local EXCEPT ![r] = NoLocal]
    /\ pc' = [pc EXCEPT ![r] = "idle"]
    /\ UNCHANGED <<buffer, lock, clock, MQTT, loop_started, stop_evt, mainpc, arg, om,
                   appended, afterStop>>

df_buf(r) ==
    \/ df_buf_acquire(r)
    \/ df_buf_copy(r)
    \/ df_buf_release(r)
    \/ df_buf_filter(r)
    \/ df_buf_return(r)

\* ------------------------------------------------------------- update
\* line 219: nothing to draw
NothingToDraw(df) ==
    \/ df = <<>>
    \/ DropNa(Column(df, "temperature")) = <<>>
    \/ DropNa(Column(df, "humidity")) = <<>>

\* lines 219-234: early return on an empty window, else the correlation
update_corr(r) ==
    /\ pc[r] = "df_done"
    /\ local[r].caller = "update"
    /\ local' = [local EXCEPT ![r].corr =
                    IF NothingToDraw(local[r].df) THEN NoCorr ELSE CorrStep(local[r].df)]
    /\ pc' = [pc EXCEPT ![r] = "upd_done"]
    /\ UNCHANGED <<buffer, lock, clock, MQTT, loop_started, stop_evt, mainpc, arg, om,
                   appended, afterStop>>

update_return(r) ==
    /\ pc[r] = "upd_done"
    /\ local' = [local EXCEPT ![r] = NoLocal]
    /\ pc' = [pc EXCEPT ![r] = "idle"]
    /\ UNCHANGED <<buffer, lock, clock, MQTT, loop_started, stop_evt, mainpc, arg, om,
                   appended, afterStop>>

\* ------------------------------------------------------------- status
\* the lock held around len(buffer) in status: none
StatusHolds(r) == lock = r

\* lines 207-209: reads MQTT and len(buffer)
status(r) ==
    /\ Serving
    /\ pc[r] = "idle"
    /\ local' = [local EXCEPT ![r] = [NoLocal EXCEPT !.caller = "status",
                                                     !.size = Len(buffer),
                                                     !.held = StatusHolds(r)]]
    /\ pc' = [pc EXCEPT ![r] = "st_done"]
    /\ UNCHANGED <<buffer, lock, clock, MQTT, loop_started, stop_evt, mainpc, arg, om,
                   appended, afterStop>>

status_return(r) ==
    /\ pc[r] = "st_done"
    /\ local' = [local EXCEPT ![r] = NoLocal]
    /\ pc' = [pc EXCEPT ![r] = "idle"]
    /\ UNCHANGED <<buffer, lock, clock, MQTT, loop_started, stop_evt, mainpc, arg, om,
                   appended, afterStop>>

\* ------------------------------------------------------------- environment
\* the wall clock is set back (datetime.utcnow() is not monotonic)
ClockStepBack ==
    /\ \E t \in Instants : t < clock /\ clock' = t
    /\ UNCHANGED <<buffer, lock, MQTT, loop_started, stop_evt, mainpc, pc, arg, om,
                   local, appended, afterStop>>

\* shutdown signals the simulation loop: stop_evt.set()
stop_evt_set ==
    /\ stop_evt = "clear"
    /\ stop_evt' = "set"
    /\ UNCHANGED <<buffer, lock, clock, MQTT, loop_started, mainpc, pc, arg, om,
                   local, appended, afterStop>>

\* a test producer calls safe_append(t, h)
TestCall(p, v) ==
    /\ mainpc = "harness"
    /\ pc[p] = "idle"
    /\ Budget
    /\ arg' = [arg EXCEPT ![p] = [t |-> v[1], h |-> v[2], ts |-> 0]]
    /\ pc' = [pc EXCEPT ![p] = "sa_lock"]
    /\ UNCHANGED <<buffer, lock, clock, MQTT, loop_started, stop_evt, mainpc, om,
                   local, appended, afterStop>>

\* ------------------------------------------------------------- programs
Startup == (\E o \in ConnectOutcomes : mqtt_connect(o)) \/ main

LiveFeed == (\E m \in Payloads : Deliver(m)) \/ OnMessageReturn

Simulation == simulate_check \/ simulate_wait_timeout

Producing == LiveFeed \/ Simulation \/ (\E p \in {LiveThread, SimThread} : safe_append(p))

Status(r) == status(r) \/ status_return(r)

Update(r) ==
    \/ df_buf_call(r, "update", UpdateWindow)
    \/ df_buf(r)
    \/ update_corr(r)
    \/ update_return(r)

Query(r) == (\E m \in QueryWindows : df_buf_call(r, "query", m)) \/ df_buf(r)

\* the dashboard as shipped, its status callback polled by both server
\* threads: nothing ever sets stop_evt
Next ==
    \/ Startup
    \/ Producing
    \/ \E r \in Readers : Status(r)
    \/ Tick

Spec == Init /\ [][Next]_vars

\* the dashboard as shipped with the broker out of reach, one server thread
\* running update and the window queries, under a wall clock that may be
\* set back
NextQuery ==
    \/ Startup
    \/ Simulation
    \/ safe_append(SimThread)
    \/ Update("r1")
    \/ Query("r1")
    \/ Tick
    \/ ClockStepBack

SpecQuery == Init /\ [][NextQuery]_vars

\* the dashboard in simulation mode with a shutdown that sets stop_evt
NextStop ==
    \/ Startup
    \/ Simulation
    \/ simulate_wait_signalled
    \/ safe_append(SimThread)
    \/ stop_evt_set
    \/ Query("r1")

\* every thread that can run does run; a thread waiting for the lock gets
\* it when the lock keeps being released; time need not pass
FairStop ==
    /\ WF_vars(simulate_check)
    /\ WF_vars(simulate_wait_signalled)
    /\ SF_vars(safe_append_acquire(SimThread))
    /\ WF_vars(safe_append_utcnow(SimThread))
    /\ WF_vars(safe_append_append(SimThread))
    /\ WF_vars(safe_append_release(SimThread))
    /\ WF_vars(df_buf_copy("r1"))
    /\ WF_vars(df_buf_release("r1"))

SpecStop == Init /\ [][NextStop]_vars /\ FairStop

\* the store under test: the module imported with the broker out of reach
\* (MQTT is False, no producer thread of its own), then concurrent producers
\* and concurrent snapshots
InitConc ==
    /\ InitCommon
    /\ MQTT = "False"
    /\ mainpc = "harness"
    /\ pc = [x \in Producers \cup Readers |->
               IF x \in {SimThread, LiveThread} THEN "none" ELSE "idle"]

NextConc ==
    \/ \E p \in TestProducers, v \in TestValues : TestCall(p, v)
    \/ \E p \in TestProducers : safe_append(p)
    \/ \E r \in Readers : df_buf_call(r, "query", 0)
    \/ \E r \in Readers : df_buf(r)
    \/ Tick

SpecConc == InitConc /\ [][NextConc]_vars

\* ------------------------------------------------------------- properties
Min(a, b) == IF a < b THEN a ELSE b
Range(s) == {s[i] : i \in 1..Len(s)}

\* s holds exactly the appends number n - Len(s) + 1 .. n, oldest first
MostRecent(s, n) ==
    /\ Len(s) = Min(n, MAX_POINTS)
    /\ \A i \in 1..Len(s) : s[i].seq = n - Len(s) + i

\* C1: whatever the producers and their interleaving, the store never holds
\* more than MAX_POINTS samples and holds exactly the most recent
\* min(n, MAX_POINTS) of the n samples appended, in arrival order: a full
\* store discards its head.
C1_StoreIsMostRecent ==
    /\ Len(buffer) <= MAX_POINTS
    /\ MostRecent(buffer, appended)

\* a full store has discarded its oldest sample
C1_Witness ==
    /\ appended > MAX_POINTS
    /\ Len(buffer) = MAX_POINTS
    /\ buffer[1].seq = appended - MAX_POINTS + 1

\* the first two fields of a payload parse as numbers t, h with
\* -10 < t < 60 and 0 <= h <= 100
ValidReading(payload) ==
    LET fs == Split(payload)
    IN  /\ Len(fs) >= 2
        /\ ParseFloat(fs[1]).ok /\ ParseFloat(fs[2]).ok
        /\ LET t == ParseFloat(fs[1]).val
               h == ParseFloat(fs[2]).val
           IN  /\ t.k = "num" /\ h.k = "num"
               /\ -10 * t.d < t.n /\ t.n < 60 * t.d
               /\ 0 <= h.n /\ h.n <= 100 * h.d

\* C2: when on_message returns, no exception has escaped it, and it has
\* appended exactly one sample, carrying the parsed temperature and humidity,
\* if the payload is a valid reading; otherwise nothing was appended.
C2_OnMessageAppendsIffValid ==
    pc[LiveThread] = "om_done" =>
        /\ ~om.escaped
        /\ IF ValidReading(om.payload)
           THEN /\ appended = om.before + 1
                /\ buffer # <<>>
                /\ buffer[Len(buffer)].seq = appended
                /\ buffer[Len(buffer)].temperature = ParseFloat(Split(om.payload)[1]).val
                /\ buffer[Len(buffer)].humidity = ParseFloat(Split(om.payload)[2]).val
           ELSE /\ appended = om.before
                /\ \A i \in 1..Len(buffer) : buffer[i].seq <= om.before

\* "25.0,55.0" was delivered and appended as temperature 25, humidity 55
C2_Witness ==
    /\ pc[LiveThread] = "om_done"
    /\ om.payload = <<"2", "5", ".", "0", ",", "5", "5", ".", "0">>
    /\ buffer # <<>>
    /\ buffer[Len(buffer)].temperature = Num(25, 1)
    /\ buffer[Len(buffer)].humidity = Num(55, 1)

\* a reader holds a snapshot between its copy and its use of it
HoldsSnapshot(r) == pc[r] \in {"df_unlock", "df_filter"}

\* C3: under any interleaving of concurrent appends and snapshots, the rows
\* a reader holds are the store's contents at the instant of the copy, an
\* instant at which no append was in progress; they number at most MAX_POINTS
\* and are neither changed by nor contain any later append.
C3_SnapshotIsAtomicCopy ==
    \A r \in Readers :
        HoldsSnapshot(r) =>
            /\ ~local[r].snapBusy
            /\ Len(View(local[r].rows)) <= MAX_POINTS
            /\ MostRecent(View(local[r].rows), local[r].snapLen)

\* a reader holds a full snapshot while the store has moved on
C3_Witness ==
    \E r \in Readers :
        /\ pc[r] = "df_filter"
        /\ Len(View(local[r].rows)) = MAX_POINTS
        /\ local[r].snapLen < appended
        /\ buffer # View(local[r].rows)

SimActive == pc[SimThread] \notin {"none", "done"}

\* C4: once startup is over exactly one producer is active: the live
\* callback loop if connect and subscribe succeeded, else the simulation
\* loop; at no time are both active.
C4_ExactlyOneProducer ==
    /\ ~(loop_started /\ SimActive)
    /\ mainpc = "run" =>
          /\ MQTT \in {"True", "False"}
          /\ MQTT = "True" => loop_started /\ ~SimActive
          /\ MQTT = "False" => ~loop_started /\ SimActive

\* the simulation loop is the producer and has appended
C4_Witness ==
    /\ mainpc = "run"
    /\ MQTT = "False"
    /\ pc[SimThread] = "wait"
    /\ appended > 0

\* C5: df_buf(mins) returns, in ascending timestamp, exactly the rows of its
\* snapshot inside the window: for mins > 0 those with ts strictly later than
\* now - mins (a row exactly at the boundary is left out), for mins = 0 all
\* of them; an empty store or an empty window gives an empty result.
C5_DfBufWindow ==
    [][\A r \in Readers :
          (pc[r] = "df_filter" /\ pc'[r] = "df_done") =>
              LET rows == View(local[r].rows)
                  mins == local[r].mins
                  d    == local'[r].df
                  In(s) == mins = 0 \/ (mins > 0 /\ s.ts > clock - mins)
              IN  /\ \A i \in 1..(Len(d) - 1) : d[i].ts <= d[i + 1].ts
                  /\ Range(d) = {s \in Range(rows) : In(s)}
                  /\ Len(d) = Cardinality(Range(d))]_vars

\* df_buf(5) has returned the newer of two held samples and left out the one
\* exactly five minutes old
C5_Witness ==
    /\ pc["r1"] = "df_done"
    /\ local["r1"].mins = UpdateWindow
    /\ appended = 2
    /\ Len(buffer) = 2
    /\ buffer[1].ts = 0
    /\ buffer[2].ts = UpdateWindow
    /\ local["r1"].df = <<buffer[2]>>

Constant(col) == \A i, j \in 1..Len(col) : col[i] = col[j]

\* C6: when update computes the correlation of a window with fewer than two
\* samples, or with temperature or humidity constant over the window, the
\* matrix it uses is the identity and holds no undefined value.
C6_DegenerateGivesIdentity ==
    \A r \in Readers :
        (/\ pc[r] = "upd_done"
         /\ local[r].corr.computed
         /\ \/ Len(local[r].df) < 2
            \/ Constant(Column(local[r].df, "temperature"))
            \/ Constant(Column(local[r].df, "humidity")))
        => local[r].corr = IdentityCorr

\* C7: every access to the buffer is made by a thread that holds the lock:
\* the append of safe_append, the copy of df_buf and the size read of status.
C7_EveryAccessHoldsLock ==
    /\ \A p \in Producers : pc[p] = "sa_append" => lock = p
    /\ \A r \in Readers : pc[r] = "df_copy" => lock = r
    /\ \A r \in Readers : pc[r] = "st_done" => local[r].held

\* C8: once stop_evt is set the simulation loop terminates, without waiting
\* for the interval to run out, and appends at most once more.
C8_StopTerminates ==
    /\ [](afterStop <= 1)
    /\ (stop_evt = "set") ~> (pc[SimThread] = "done")

\* the loop has ended after one append made past the signal
C8_Witness ==
    /\ stop_evt = "set"
    /\ pc[SimThread] = "done"
    /\ afterStop = 1

\* C9: every sample in the store has -10 < temperature < 60 and
\* 0 <= humidity <= 100, whichever producer appended it.
C9_StoredSamplesInRange ==
    \A i \in 1..Len(buffer) :
        LET t == buffer[i].temperature
            h == buffer[i].humidity
        IN  /\ t.k = "num" /\ h.k = "num"
            /\ -10 * t.d < t.n /\ t.n < 60 * t.d
            /\ 0 <= h.n /\ h.n <= 100 * h.d

\* the live callback has filled the store with readings at both humidity ends
C9_Witness ==
    /\ MQTT = "True"
    /\ Len(buffer) = MAX_POINTS
    /\ \E i, j \in 1..Len(buffer) :
          buffer[i].humidity = Num(0, 1) /\ buffer[j].humidity = Num(100, 1)

\* C10: with a clock that never goes back, the store is ordered by
\* non-decreasing timestamp, also under concurrent producers, and df_buf(0)
\* returns its rows in insertion order wherever their timestamps differ.
C10_StoreOrderedByTime ==
    /\ \A i, j \in 1..Len(buffer) : i < j => buffer[i].ts <= buffer[j].ts
    /\ \A r \in Readers :
          (pc[r] = "df_done" /\ local[r].mins = 0) =>
              \A i, j \in 1..Len(local[r].df) :
                  i < j => \/ local[r].df[i].ts = local[r].df[j].ts
                           \/ local[r].df[i].seq < local[r].df[j].seq

\* df_buf(0) has returned two samples appended at different times
C10_Witness ==
    \E r \in Readers :
        /\ pc[r] = "df_done"
        /\ local[r].mins = 0
        /\ Len(local[r].df) = 2
        /\ local[r].df[1].ts < local[r].df[2].ts

=============================================================================
